---- MODULE Spec2Model ----
(***************************************************************************)
(* Model of the Iridium SBD driver of src/iridium-sbd.js: the file-global  *)
(* command slot (er, kr, df, tf), the serial 'data' handler, the AT        *)
(* command function, the init batch, and the SBD session callbacks.        *)
(*                                                                         *)
(* The driver is single threaded: every handler (a serial event, a timer,  *)
(* a public call) runs to completion, so each is one action.  A handler    *)
(* is written as a function from the driver state (a record, see St) to    *)
(* the driver state, because handlers call each other synchronously.       *)
(*                                                                         *)
(* A callback registered with AT is a closure; it is modelled as a record  *)
(* Cont(k, cb, e, m, q, i) naming the closure (k) and the values it        *)
(* captured: the caller's callback cb, an error e, the momsn m, mtqueued   *)
(* q, and the index i of an async.series task.                             *)
(*                                                                         *)
(* trace is a history variable: the commands written to the serial port,   *)
(* the invocations of datafunction, the events emitted and the calls of    *)
(* the application's callbacks, in order, since the port opened or, once   *)
(* the application has started an operation, since it started the last.   *)
(***************************************************************************)
EXTENDS Integers, Sequences, FiniteSets, TLC

VARIABLES
    portOpen,        \* the serial port has emitted 'open'
    er,              \* let er: end regexp of the last command
    kr,              \* kr: keep regexp of the last command
    df,              \* let df: completion wrapper of the last command
    tf,              \* let tf: the command timer
    command,         \* the command argument captured by df's call of AT
    buffer,          \* iridium.buffer: the body collected so far
    binary,          \* iridium.binary: mode and the accumulated bytes
    flushTimers,     \* armed timers of enableBinaryMode
    messagePending,  \* iridium.messagePending
    lock,            \* iridium.lock
    pending,         \* iridium.pending
    c_attempt,       \* iridium.c_attempt
    globals,         \* iridium.globals
    timers,          \* armed timers of mailboxSend, with their closures
    called,          \* async.series: tasks whose callback was invoked
    ops,             \* public calls made so far (bounds the exploration)
    ringalerts,      \* 'ringalert' events emitted
    thrown,          \* the exception that left a handler uncaught
    config,          \* history: the config the application passed to open
    tally,           \* history: counts over the current mailboxSend
    delivered,       \* history: the body handed to the last datafunction
    received,        \* history: the data the last step handed to the 'data' handler
    trace            \* history of the current operation

vars == <<portOpen, er, kr, df, tf, command, buffer, binary, flushTimers,
          messagePending, lock, pending, c_attempt, globals, timers, called,
          ops, ringalerts, thrown, config, tally, delivered, received, trace>>

-----------------------------------------------------------------------------
(* Bounds of the exploration *)

MaxTrace == 18
MaxBody == 1
MaxOps == 1
MaxRings == 1
MaxBinary == 5
MaxChecks == 1
MaxTimers == 2
MaxFailures == 6
LongMessage == 258

-----------------------------------------------------------------------------
(* iridium.globals *)

defaultTimeout == 40000
simpleTimeout == 2000
timeoutForever == -1
maxAttempts == 5
\* an argument that was not passed, a key that is not there (undefined)
NotPassed == 0

\* the keys of the globals literal that the driver reads as numbers
Globals0 ==
    [defaultTimeout |-> defaultTimeout, simpleTimeout |-> simpleTimeout,
     timeoutForever |-> timeoutForever, maxAttempts |-> maxAttempts]

\* iridium.globals[key]: undefined for a key globals does not have
Global(s, key) ==
    IF key \in DOMAIN s.globals THEN s.globals[key] ELSE NotPassed

\* the config object of open: the two options the application may give
Config(maxWait, attempts) == [maxWait |-> maxWait, maxAttempts |-> attempts]
NoConfig == Config(NotPassed, NotPassed)

-----------------------------------------------------------------------------
(* Inbound data.  A text line is [h, a, x]: its leading token, the numbers  *)
(* that follow it, and a trailing word.  A flushed binary blob has h =      *)
(* "BLOB" and its bytes in a.                                               *)

Line(h, a, x) == [h |-> h, a |-> a, x |-> x]

LineOK == Line("OK", <<>>, "")
LineERROR == Line("ERROR", <<>>, "")
LineRING == Line("SBDRING", <<>>, "")
LineAREG == Line("+AREG", <<2, 0>>, "")
LineAREGBad == Line("+AREG", <<>>, "")
LineREADY == Line("READY", <<>>, "")
\* a line that matches /READY/ and /ERROR/
LineREADYERROR == Line("READY", <<>>, "ERROR")
LineCIEV == Line("+CIEV", <<0, 3>>, "")
LineCIEV0 == Line("+CIEV", <<0, 0>>, "")
Blob(bytes) == Line("BLOB", bytes, "")
SBDIX(status, momsn, mtstatus, mtqueued) ==
    Line("+SBDIX", <<status, momsn, mtstatus, 7, 4, mtqueued>>, "")
LineSBDIXBad == Line("+SBDIX", <<>>, "")
\* no data: the step was not a run of the 'data' handler
NoLine == Line("", <<>>, "")

\* RegExp.test(data) for the regular expressions of the driver
Test(re, data) ==
    CASE re = "OK" -> data.h = "OK"                       \* /^OK\r/
      [] re = "ALL" -> TRUE                               \* /.*/
      [] re = "READY" -> data.h = "READY" \/ data.x = "READY"   \* /READY/
      [] re = "CIEV" -> /\ data.h = "+CIEV"               \* /\+CIEV:0,[^0]/
                        /\ Len(data.a) >= 2
                        /\ data.a[1] = 0
                        /\ data.a[2] # 0
      [] re = "SBDIX" -> data.h = "+SBDIX"                \* /\+SBDIX/
      [] re = "ERROR" -> data.h = "ERROR" \/ data.x = "ERROR"   \* /ERROR/
      [] re = "SBDRING" -> data.h = "SBDRING"             \* /^SBDRING/
      [] re = "AREG" -> data.h = "+AREG"                  \* /^\+AREG/
      [] OTHER -> FALSE

\* a value in a boolean context: undefined and false are falsy
Truthy(re) == re \notin {"undefined", "false"}

-----------------------------------------------------------------------------
(* Closures and history entries *)

\* a callback of the application or of mailboxSend: f names the function,
\* buffer is the message the closure of mailboxSend captured
Fn(f, buf) == [f |-> f, buffer |-> buf]
User == Fn("user", <<>>)
None == Fn("none", <<>>)
Mailbox(buf) == Fn("mailbox", buf)

Cont(k, cb, e, m, q, i) ==
    [k |-> k, cb |-> cb, e |-> e, m |-> m, q |-> q, i |-> i, ob |-> <<>>]
\* the closure sendBinaryMessage hands to AT: it captured ob
Undefined == -1
ContB(k, cb, ob) == [Cont(k, cb, "null", Undefined, 0, 0) EXCEPT !.ob = ob]
NoCont == Cont("undefined", None, "null", Undefined, 0, 0)

Cmd(c, x, p) == [c |-> c, x |-> x, p |-> p]
NoCmd == Cmd("", "", <<>>)

\* a history entry: its kind t, the command or event c with its argument x,
\* an error e, a number n (momsn, mtqueued), bytes p and a text body b
Entry(t, c, x, e, n, p, b) ==
    [t |-> t, c |-> c, x |-> x, e |-> e, n |-> n, p |-> p, b |-> b]
Written(c) == Entry("write", c.c, c.x, "null", 0, c.p, <<>>)
\* datafunction(err, text) of command c was invoked; text is recorded for the
\* two commands whose datafunction reads it
Done(c, err, text) ==
    Entry("done", c.c, c.x, err, 0,
          IF c.c = "AT+SBDRB" /\ text # <<>> /\ text[1].h = "BLOB"
          THEN text[1].a ELSE <<>>,
          IF c.c = "AT+SBDIXA" THEN text ELSE <<>>)
Emitted(ev, n, p) == Entry("emit", ev, "", "null", n, p, <<>>)
Called(err, momsn) == Entry("callback", "", "", err, momsn, <<>>, <<>>)
\* the application called the public function op with argument x
Began(op, x) == Entry("call", op, x, "null", 0, <<>>, <<>>)
\* the application called the public function op with the bytes p
BeganBinary(op, p) == Entry("call", op, "", "null", 0, p, <<>>)

\* the driver state as one record
St == [portOpen |-> portOpen, er |-> er, kr |-> kr, df |-> df, tf |-> tf,
       command |-> command, buffer |-> buffer, binary |-> binary,
       flushTimers |-> flushTimers, messagePending |-> messagePending,
       lock |-> lock, pending |-> pending, c_attempt |-> c_attempt,
       globals |-> globals, timers |-> timers, called |-> called, ops |-> ops,
       ringalerts |-> ringalerts, thrown |-> thrown, config |-> config,
       tally |-> tally, delivered |-> delivered, received |-> received,
       trace |-> trace]

Becomes(s) ==
    /\ portOpen' = s.portOpen
    /\ er' = s.er
    /\ kr' = s.kr
    /\ df' = s.df
    /\ tf' = s.tf
    /\ command' = s.command
    /\ buffer' = s.buffer
    /\ binary' = s.binary
    /\ flushTimers' = s.flushTimers
    /\ messagePending' = s.messagePending
    /\ lock' = s.lock
    /\ pending' = s.pending
    /\ c_attempt' = s.c_attempt
    /\ globals' = s.globals
    /\ timers' = s.timers
    /\ config' = s.config
    /\ tally' = s.tally
    /\ delivered' = s.delivered
    /\ called' = s.called
    /\ ops' = s.ops
    /\ ringalerts' = s.ringalerts
    /\ thrown' = s.thrown
    /\ received' = s.received
    /\ trace' = s.trace

Log(s, e) == [s EXCEPT !.trace = Append(@, e)]

\* an exception nobody catches: the rest of the handler does not run
Throw(s, what) == [s EXCEPT !.thrown = what]

\* clearTimeout(tf): an armed timer is cancelled, a fired one stays fired
ClearTimeout(t) == IF t = "armed" THEN "cleared" ELSE t

-----------------------------------------------------------------------------
(* AT: record the slot, arm the timer, write the command *)

\* a variant of AT that refuses a command while the slot is set
AT_Rejecting(s, cmd, endregexp, keepregexp, datafunction, timeout) ==
    LET t == IF timeout = NotPassed THEN s.globals.defaultTimeout ELSE timeout
    IN  IF Truthy(s.er) THEN s
        ELSE Log([s EXCEPT !.er = endregexp,
                           !.kr = keepregexp,
                           !.tf = IF t > 0 THEN "armed" ELSE ClearTimeout(@),
                           !.df = datafunction,
                           !.command = cmd],
                 Written(cmd))

AT(s, cmd, endregexp, keepregexp, datafunction, timeout) ==
    LET t == IF timeout = NotPassed THEN s.globals.defaultTimeout ELSE timeout
    IN  Log([s EXCEPT !.er = endregexp,
                      !.kr = keepregexp,
                      !.tf = IF t > 0 THEN "armed" ELSE ClearTimeout(@),
                      !.df = datafunction,
                      !.command = cmd],
            Written(cmd))

ATS(s, cmd, endregexp, keepregexp, callback, timeout) ==
    AT(s, cmd, endregexp, keepregexp, callback, timeout)

echoOff(s, callback) ==
    ATS(s, Cmd("ATE0", "", <<>>), "OK", "ALL", callback, s.globals.simpleTimeout)

clearBuffers(s, callback) ==
    ATS(s, Cmd("AT+SBDD2", "", <<>>), "OK", "ALL", callback, s.globals.simpleTimeout)

enableRegistration(s, callback) ==
    ATS(s, Cmd("AT+SBDAREG=1", "", <<>>), "OK", "ALL", callback, s.globals.simpleTimeout)

ringAlertEnable(s, callback) ==
    ATS(s, Cmd("AT+SBDMTA=1", "", <<>>), "OK", "ALL", callback, s.globals.simpleTimeout)

clearMOBuffers(s, callback) ==
    ATS(s, Cmd("AT+SBDD0", "", <<>>), "OK", "ALL", callback, s.globals.simpleTimeout)

clearMTBuffers(s, callback) ==
    ATS(s, Cmd("AT+SBDD1", "", <<>>), "OK", "ALL", callback, s.globals.simpleTimeout)

waitForNetwork(s, callback) ==
    ATS(s, Cmd("AT+CIER=1,1,0", "", <<>>), "CIEV", "ALL", callback,
        IF Global(s, "maxWait") # NotPassed
        THEN Global(s, "maxWait") ELSE s.globals.timeoutForever)

disableSignalMonitoring(s, callback) ==
    ATS(s, Cmd("AT+CIER=0,0,0", "", <<>>), "OK", "ALL", callback, s.globals.simpleTimeout)

-----------------------------------------------------------------------------
(* init: async.series over echoOff, clearBuffers, enableRegistration,      *)
(* ringAlertEnable, initComplete.  The callback async hands to task i is   *)
(* Cont("series", .., i).  async guards it with onlyOnce: a second call    *)
(* throws.                                                                 *)

NTasks == 5

initComplete(s) ==
    [Log(s, Emitted("initialized", 0, <<>>)) EXCEPT !.called = @ \cup {NTasks}]

\* a variant of RunTask with clearBuffers and enableRegistration exchanged
RunTask_Swapped(s, i) ==
    LET cb == Cont("series", None, "null", Undefined, 0, i)
    IN  CASE i = 1 -> echoOff(s, cb)
          [] i = 2 -> enableRegistration(s, cb)
          [] i = 3 -> clearBuffers(s, cb)
          [] i = 4 -> ringAlertEnable(s, cb)
          [] OTHER -> initComplete(s)

RunTask(s, i) ==
    LET cb == Cont("series", None, "null", Undefined, 0, i)
    IN  CASE i = 1 -> echoOff(s, cb)
          [] i = 2 -> clearBuffers(s, cb)
          [] i = 3 -> enableRegistration(s, cb)
          [] i = 4 -> ringAlertEnable(s, cb)
          [] OTHER -> initComplete(s)

\* a variant of async.series that goes on after a task failed
batchProcess_IgnoresError(s, i, err) ==
    IF i \in s.called
    THEN Throw(s, "Callback was already called")
    ELSE RunTask([s EXCEPT !.called = @ \cup {i}], i + 1)

batchProcess(s, i, err) ==
    IF i \in s.called
    THEN Throw(s, "Callback was already called")
    ELSE LET s1 == [s EXCEPT !.called = @ \cup {i}]
         IN  IF err # "null" THEN s1 ELSE RunTask(s1, i + 1)

init(s) == RunTask(s, 1)

-----------------------------------------------------------------------------
(* Callbacks.  User is a function of the application; None is a callback   *)
(* that was not passed (mailboxCheck passes none); Mailbox(buffer) is the  *)
(* closure mailboxSend hands to sendBinaryMessage, and the callback that   *)
(* closure captured is the application's.                                  *)

\* a timer of mailboxSend: the closure k, its delay, the buffer it captured
Timer(k, delay, buf) == [k |-> k, delay |-> delay, buffer |-> buf]

Tally0 ==
    [attempts |-> 0, sessions |-> 0, failures |-> 0, due |-> 0,
     followups |-> 0, checks |-> 0, results |-> <<>>, replayed |-> FALSE]

\* callback(err, momsn) for a callback of the application
Apply(s, cb, err, momsn) ==
    IF cb.f = "user"
    THEN [Log(s, Called(err, momsn)) EXCEPT !.tally.results = Append(@, err)]
    ELSE Throw(s, "TypeError: callback is not a function")

\* a variant of mailboxDone that starts the follow-up check at once
mailboxDone_CheckAtOnce(s, cb, err, momsn) ==
    IF err = "null"
    THEN Apply(IF s.pending > 0
               THEN [s EXCEPT !.tally.due = @ + 1, !.tally.followups = @ + 1,
                              !.trace = Append(@, Written(Cmd("AT+SBDD0", "", <<>>)))]
               ELSE [s EXCEPT !.lock = 0],
               User, "false", momsn)
    ELSE [s EXCEPT !.tally.failures = @ + 1,
                   !.timers = Append(@, Timer("retry", 20000, cb.buffer))]

\* a variant of mailboxDone that reports a failed attempt to the caller
mailboxDone_GivesUp(s, cb, err, momsn) ==
    IF err = "null"
    THEN Apply(IF s.pending > 0
               THEN [s EXCEPT !.tally.due = @ + 1,
                              !.timers = Append(@, Timer("check", 1000, <<>>))]
               ELSE [s EXCEPT !.lock = 0],
               User, "false", momsn)
    ELSE Apply([s EXCEPT !.tally.failures = @ + 1], User, err, Undefined)

\* function (err, momsn) of mailboxSend
mailboxDone(s, cb, err, momsn) ==
    IF err = "null"
    THEN Apply(IF s.pending > 0
               THEN [s EXCEPT !.tally.due = @ + 1,
                              !.timers = Append(@, Timer("check", 1000, <<>>))]
               ELSE [s EXCEPT !.lock = 0],
               User, "false", momsn)
    ELSE [s EXCEPT !.tally.failures = @ + 1,
                   !.timers = Append(@, Timer("retry", 20000, cb.buffer))]

Call(s, cb, err, momsn) ==
    IF cb.f = "mailbox" THEN mailboxDone(s, cb, err, momsn)
    ELSE Apply(s, cb, err, momsn)

finishSession(s, callback, momsn) ==
    clearMOBuffers(s, Cont("finish", callback, "null", momsn, 0, 0))

\* clearMOBuffers(function () { callback(err); })
surface(s, callback, err) ==
    clearMOBuffers(s, Cont("surface", callback, err, Undefined, 0, 0))

enableBinaryMode(s) ==
    [s EXCEPT !.binary.mode = TRUE, !.flushTimers = @ + 1]

\* the callback initiateSession hands to readBinaryMessage is
\* Cont("mtCleared", ..): it clears the MO buffer and then calls back
readBinaryMessage(s, mtqueued, callback, momsn) ==
    AT(enableBinaryMode(s), Cmd("AT+SBDRB", "", <<>>), "false", "false",
       Cont("readBinary", callback, "null", momsn, mtqueued, 0),
       s.globals.simpleTimeout)

\* a variant of MessageBuffer that copies from the start of the blob
MessageBuffer_FromStart(ib) ==
    LET messageLength == ib[1] * 256 + ib[2]
    IN  [j \in 1..messageLength |-> IF j <= Len(ib) THEN ib[j] ELSE 0]

\* Buffer.alloc(messageLength) filled by ib.copy(messageBuffer, 0, 2, messageLength + 2)
MessageBuffer(ib) ==
    LET messageLength == ib[1] * 256 + ib[2]
    IN  [j \in 1..messageLength |-> IF j + 2 <= Len(ib) THEN ib[j + 2] ELSE 0]

readBinaryDone(s, c, err, text) ==
    LET after == Cont("mtCleared", c.cb, "null", c.m, 0, 0)
        ib == text[1]
    IN  IF err # "null"
        THEN clearMTBuffers(s, after)
        ELSE IF ib.h # "BLOB"
        THEN Throw(s, "TypeError: ib.readUInt16BE is not a function")
        ELSE IF Len(ib.a) < 2
        THEN Throw(s, "RangeError: index out of range")
        ELSE clearMTBuffers(
                 Log([s EXCEPT !.binary.mode = FALSE, !.pending = c.q],
                     Emitted("newmessage", c.q, MessageBuffer(ib.a))),
                 after)

initiateSession(s, callback) ==
    AT([s EXCEPT !.tally.sessions = IF callback.f = "mailbox" THEN @ + 1 ELSE @],
       Cmd("AT+SBDIXA", "", <<>>), "OK", "SBDIX",
       Cont("session", callback, "null", Undefined, 0, 0), NotPassed)

\* text.match(/\+SBDIX: (\d+), (\d+), (\d+), (\d+), (\d+), (\d+)/): the
\* first line of the body of that form, or 0
Match(text) ==
    LET found == {j \in 1..Len(text) : text[j].h = "+SBDIX" /\ Len(text[j].a) = 6}
    IN  IF found = {} THEN 0 ELSE CHOOSE j \in found : \A k \in found : j <= k

\* a variant of sessionDone that takes status 4 for a failure
sessionDone_Below4(s, c, err, text) ==
    IF err # "null"
    THEN surface([s EXCEPT !.messagePending = 1], c.cb, err)
    ELSE IF Match(text) = 0
    THEN Throw(s, "ReferenceError: momsn is not defined")
    ELSE LET m == text[Match(text)].a
             status == m[1]
             momsn == m[2]
             mtstatus == m[3]
             mtqueued == m[6]
         IN  IF status < 4
             THEN LET s1 == [s EXCEPT !.messagePending = 0]
                  IN  IF mtstatus = 0 THEN finishSession(s1, c.cb, momsn)
                      ELSE IF mtstatus = 1
                      THEN readBinaryMessage(s1, mtqueued, c.cb, momsn)
                      ELSE finishSession(s1, c.cb, momsn)
             ELSE IF status = 18
             THEN surface([s EXCEPT !.messagePending = 1], c.cb, "radio failure")
             ELSE IF status = 32
             THEN surface([s EXCEPT !.messagePending = 1], c.cb, "network failure")
             ELSE surface([s EXCEPT !.messagePending = 1], c.cb, "unknown failure")

sessionDone(s, c, err, text) ==
    IF err # "null"
    THEN surface([s EXCEPT !.messagePending = 1], c.cb, err)
    ELSE IF Match(text) = 0
    THEN Throw(s, "ReferenceError: momsn is not defined")
    ELSE LET m == text[Match(text)].a
             status == m[1]
             momsn == m[2]
             mtstatus == m[3]
             mtqueued == m[6]
         IN  IF status <= 4
             THEN LET s1 == [s EXCEPT !.messagePending = 0]
                  IN  IF mtstatus = 0 THEN finishSession(s1, c.cb, momsn)
                      ELSE IF mtstatus = 1
                      THEN readBinaryMessage(s1, mtqueued, c.cb, momsn)
                      ELSE finishSession(s1, c.cb, momsn)
             ELSE IF status = 18
             THEN surface([s EXCEPT !.messagePending = 1], c.cb, "radio failure")
             ELSE IF status = 32
             THEN surface([s EXCEPT !.messagePending = 1], c.cb, "network failure")
             ELSE surface([s EXCEPT !.messagePending = 1], c.cb, "unknown failure")

\* sendMessage once it has chosen its command
sendMessageAs(s, cmd, callback) ==
    AT(s, cmd, "OK", "ALL",
       Cont("written", callback, "null", Undefined, 0, 0), NotPassed)

sendMessage(s, message, callback) ==
    sendMessageAs(s, IF message # "" THEN Cmd("AT+SBDWT=", message, <<>>)
                                     ELSE Cmd("AT+SBDD0", "", <<>>),
                  callback)

writtenDone(s, c, err) ==
    IF err # "null"
    THEN surface([s EXCEPT !.messagePending = 0], c.cb, err)
    ELSE waitForNetwork([s EXCEPT !.messagePending = 1],
                        Cont("network", c.cb, "null", Undefined, 0, 0))

\* a variant of networkDone that starts the session with monitoring still on
networkDone_MonitoringOn(s, c, xerr) ==
    IF xerr # "null"
    THEN surface([s EXCEPT !.messagePending = 0], c.cb, xerr)
    ELSE initiateSession([s EXCEPT !.messagePending = 2], c.cb)

networkDone(s, c, xerr) ==
    IF xerr # "null"
    THEN surface([s EXCEPT !.messagePending = 0], c.cb, xerr)
    ELSE disableSignalMonitoring([s EXCEPT !.messagePending = 2],
                                 Cont("monitoringOff", c.cb, "null", Undefined, 0, 0))

\* the sum of bytes[lo..hi]; the loop of sendBinaryMessage adds them in order
RECURSIVE SumRange(_, _, _)
SumRange(bytes, lo, hi) ==
    IF lo > hi THEN 0
    ELSE IF lo = hi THEN bytes[lo]
    ELSE LET mid == (lo + hi) \div 2
         IN  SumRange(bytes, lo, mid) + SumRange(bytes, mid + 1, hi)
Sum(bytes) == SumRange(bytes, 1, Len(bytes))

\* a variant of Checksummed with the low byte of the sum first
Checksummed_LowFirst(message) ==
    LET sum == Sum(message)
    IN  message \o <<sum % 256, (sum \div 256) % 256>>

\* ob: the message, then (sum >> 8) & 0xff, then sum & 0xff; the sum of up
\* to bufferSize bytes is far below 2^31, where & and >> are exact
Checksummed(message) ==
    LET sum == Sum(message)
    IN  message \o <<(sum \div 256) % 256, sum % 256>>

\* a message of length 0 goes to sendMessage, which takes the empty Buffer
\* for a text (an object is truthy)
sendBinaryMessage(s, message, callback) ==
    IF Len(message) = 0
    THEN sendMessageAs(s, Cmd("AT+SBDWT=", "", <<>>), callback)
    ELSE AT(s, Cmd("AT+SBDWB=", ToString(Len(message)), <<>>), "READY", "ALL",
            ContB("ready", callback, Checksummed(message)), NotPassed)

\* function (err, text) of sendBinaryMessage: write ob; the closure it
\* hands to ATS does what the one of sendMessage does
readyDone(s, c, err) ==
    IF err # "null"
    THEN surface([s EXCEPT !.messagePending = 0], c.cb, err)
    ELSE ATS(s, Cmd("ob", "", c.ob), "OK", "ALL",
             Cont("written", c.cb, "null", Undefined, 0, 0), NotPassed)

\* a variant of mailboxSend that does not count its attempts
mailboxSend_Uncounted(s, buf, callback) ==
    IF s.c_attempt # Undefined /\ s.c_attempt <= s.globals.maxAttempts
    THEN sendBinaryMessage([s EXCEPT !.lock = 1, !.tally.attempts = @ + 1],
                           buf, Mailbox(buf))
    ELSE Apply(s, callback, "maxAttempts", Undefined)

\* c_attempt++ leaves an undefined counter not a number, and NaN <= n is false
mailboxSend(s, buf, callback) ==
    LET s1 == [s EXCEPT !.c_attempt = IF @ = Undefined THEN @ ELSE @ + 1]
    IN  IF s1.c_attempt # Undefined /\ s1.c_attempt <= s1.globals.maxAttempts
        THEN sendBinaryMessage([s1 EXCEPT !.lock = 1, !.tally.attempts = @ + 1],
                               buf, Mailbox(buf))
        ELSE Apply(s1, callback, "maxAttempts", Undefined)

mailboxCheck(s) ==
    IF s.lock # 0
    THEN [s EXCEPT !.pending = @ + 1]
    ELSE sendMessage(s, "", None)

\* open(config): a key of config is taken if globals has that key
open(s, cfg) ==
    LET Pick(key) == IF key \in DOMAIN cfg /\ cfg[key] # NotPassed
                     THEN cfg[key] ELSE s.globals[key]
    IN  [s EXCEPT !.config = cfg,
                  !.globals = [defaultTimeout |-> Pick("defaultTimeout"),
                               simpleTimeout |-> Pick("simpleTimeout"),
                               timeoutForever |-> Pick("timeoutForever"),
                               maxAttempts |-> Pick("maxAttempts")]]

\* datafunction(err, text) for each closure the driver registers
Run(s, c, err, text) ==
    CASE c.k = "series" -> batchProcess(s, c.i, err)
      [] c.k = "ready" -> readyDone(s, c, err)
      [] c.k = "written" -> writtenDone(s, c, err)
      [] c.k = "network" -> networkDone(s, c, err)
      [] c.k = "monitoringOff" -> initiateSession(s, c.cb)
      [] c.k = "session" -> sessionDone(s, c, err, text)
      [] c.k = "readBinary" -> readBinaryDone(s, c, err, text)
      [] c.k = "mtCleared" -> finishSession(s, c.cb, c.m)
      [] c.k = "finish" -> Call(s, c.cb, err, c.m)
      [] c.k = "surface" -> Call(s, c.cb, c.e, Undefined)
      [] OTHER -> Throw(s, "TypeError: df is not a function")

\* a command was written and no datafunction was invoked since
Unanswered(s) == s.trace # <<>> /\ s.trace[Len(s.trace)].t = "write"

\* df as AT defines it: clear the timer, then call datafunction.
\* delete(df), delete(er) and delete tf do nothing to let bindings.
Invoke(s, err, text) ==
    Run(Log([s EXCEPT !.tf = ClearTimeout(@), !.delivered = text,
                      !.tally.replayed = @ \/ ~Unanswered(s)],
            Done(s.command, err, text)),
        s.df, err, text)

-----------------------------------------------------------------------------
(* The unsolicited handlers and the serial 'data' handler *)

sbdring(s) == [s EXCEPT !.ringalerts = @ + 1]

areg(s, line) ==
    IF Len(line.a) >= 2 THEN s
    ELSE Throw(s, "TypeError: Cannot read property '1' of null")

\* the statement after df(..) runs only if df returned
ThenClear(s) == IF s.thrown # "none" THEN s ELSE [s EXCEPT !.buffer = <<>>]

Keep(s, data) ==
    IF ~Truthy(s.kr) \/ Test(s.kr, data)
    THEN [s EXCEPT !.buffer = Append(@, data)]
    ELSE s

\* a variant of the handler that tests the end pattern before the errors
OnData_ErrorsLast(s, data) ==
    IF ~Truthy(s.er) THEN Invoke(s, "null", <<data>>)
    ELSE IF Test("SBDRING", data) THEN sbdring(s)
    ELSE IF Test("AREG", data) THEN areg(s, data)
    ELSE LET s1 == Keep(s, data)
         IN  IF Truthy(s1.er) /\ Test(s1.er, data)
             THEN ThenClear(Invoke(s1, "null", s1.buffer))
             ELSE IF Test("ERROR", data)
             THEN ThenClear(Invoke(s, "ERROR", s.buffer))
             ELSE s1

\* a variant of the handler that looks for unsolicited lines last
OnData_UnsolicitedLast(s, data) ==
    IF ~Truthy(s.er) THEN Invoke(s, "null", <<data>>)
    ELSE IF Test("ERROR", data) THEN ThenClear(Invoke(s, "ERROR", s.buffer))
    ELSE LET s1 == Keep(s, data)
         IN  IF Truthy(s1.er) /\ Test(s1.er, data)
             THEN ThenClear(Invoke(s1, "null", s1.buffer))
             ELSE IF Test("SBDRING", data) THEN sbdring(s1)
             ELSE IF Test("AREG", data) THEN areg(s1, data)
             ELSE s1

OnData(s, data) ==
    IF ~Truthy(s.er) THEN Invoke(s, "null", <<data>>)
    ELSE IF Test("SBDRING", data) THEN sbdring(s)
    ELSE IF Test("AREG", data) THEN areg(s, data)
    ELSE IF Test("ERROR", data) THEN ThenClear(Invoke(s, "ERROR", s.buffer))
    ELSE LET s1 == Keep(s, data)
         IN  IF Truthy(s1.er) /\ Test(s1.er, data)
             THEN ThenClear(Invoke(s1, "null", s1.buffer))
             ELSE s1

\* the timer of enableBinaryMode: emit the accumulated bytes, then reset
FlushBinary(s) ==
    LET s1 == OnData([s EXCEPT !.flushTimers = @ - 1,
                               !.received = Blob(s.binary.buffer)],
                     Blob(s.binary.buffer))
    IN  IF s1.thrown # "none" THEN s1
        ELSE [s1 EXCEPT !.binary = [mode |-> FALSE, buffer |-> <<>>]]

-----------------------------------------------------------------------------
(* Actions *)

\* the lines the modem sends while the driver initializes
InitLines == {LineOK, LineERROR, LineRING, LineAREG, LineAREGBad, LineCIEV}

\* the lines the modem sends during a session
SessionLines ==
    {LineOK, LineERROR, LineCIEV, LineSBDIXBad,
     SBDIX(0, 42, 0, 0), SBDIX(4, 43, 1, 1), SBDIX(5, 42, 0, 0),
     SBDIX(18, 42, 1, 0), SBDIX(32, 42, 0, 0), SBDIX(1, 42, 2, 0)}

\* the answers of a session that finds no MT message, and unsolicited lines
UnsolicitedLines ==
    {LineOK, LineERROR, LineCIEV, LineRING, LineAREG, LineAREGBad,
     SBDIX(0, 42, 0, 0)}

\* the answers to a mailboxSend whose sessions fail
RetryLines == {LineOK, LineERROR, LineREADY, LineCIEV, SBDIX(32, 42, 0, 0)}

\* the answers to a mailboxSend whose session succeeds
MailboxLines == {LineOK, LineREADY, LineCIEV, SBDIX(0, 42, 0, 0)}

\* the answers of a session that finds an MT message
InterleavedLines == {LineOK, LineCIEV, SBDIX(4, 43, 1, 1)}

\* the answers to a binary write
BinaryLines == {LineOK, LineERROR, LineREADY, LineREADYERROR, LineCIEV}

ConfigLines == {LineOK, LineERROR, LineCIEV}

Bytes == {0, 1}

\* what deflateRaw hands to mailboxSend
Deflated == {<<7>>}

\* messages for sendBinaryMessage; the sum of the long one is above 2^16
BinaryMessages ==
    {<<7>>, <<200, 100>>, <<255, 255, 255>>, [j \in 1..LongMessage |-> 255]}

Configs == {Config(5000, NotPassed), Config(NotPassed, 2)}

Messages == {"", "hider"}

Init ==
    /\ portOpen = FALSE
    /\ er = "undefined"
    /\ kr = "undefined"
    /\ df = NoCont
    /\ tf = "undefined"
    /\ command = NoCmd
    /\ buffer = <<>>
    /\ binary = [mode |-> FALSE, buffer |-> <<>>]
    /\ flushTimers = 0
    /\ messagePending = 0
    /\ lock = 0
    /\ pending = 0
    /\ c_attempt = Undefined
    /\ globals = Globals0
    /\ timers = <<>>
    /\ config = NoConfig
    /\ tally = Tally0
    /\ delivered = <<>>
    /\ called = {}
    /\ ops = 0
    /\ ringalerts = 0
    /\ thrown = "none"
    /\ received = NoLine
    /\ trace = <<>>

\* an uncaught exception ends the process
Running == thrown = "none" /\ Len(trace) < MaxTrace

\* the history entries of kind t among the first n
CountTo(t, n) == Cardinality({j \in 1..n : trace[j].t = t})
Count(t) == CountTo(t, Len(trace))

\* a command was written and its datafunction has not been invoked since
InFlight == trace # <<>> /\ trace[Len(trace)].t = "write"

\* the application was called back for the operation it started last
Idle == ops = 0 \/ Count("callback") >= 1

\* a public call begins a new history
Begin(s, op, x) ==
    [s EXCEPT !.ops = @ + 1, !.received = NoLine, !.trace = <<Began(op, x)>>]

\* a timer runs: a new history begins
Restart(s, op) == [s EXCEPT !.received = NoLine, !.trace = <<Began(op, "")>>]

BeginBinary(s, op, p) ==
    [s EXCEPT !.ops = @ + 1, !.received = NoLine, !.trace = <<BeganBinary(op, p)>>]

\* the sequence without its i-th element
Remove(seq, i) == SubSeq(seq, 1, i - 1) \o SubSeq(seq, i + 1, Len(seq))

\* the application calls open(config), once, before the port opens
OpenConfig(configs) ==
    /\ Running
    /\ ~portOpen
    /\ config = NoConfig
    /\ \E cfg \in configs : Becomes(open([St EXCEPT !.received = NoLine], cfg))

\* serialPort.on("open")
Open ==
    /\ Running
    /\ ~portOpen
    /\ Becomes(init([St EXCEPT !.portOpen = TRUE, !.received = NoLine]))

\* the modem reports a session only in answer to AT+SBDIXA
Modem(data) ==
    data.h = "+SBDIX" => (InFlight /\ command.c = "AT+SBDIXA")

\* readSBD in text mode on a chunk that ends one line, and the 'data'
\* handler on that line
Receive(lines) ==
    /\ Running
    /\ portOpen
    /\ ~binary.mode
    /\ \E data \in lines :
          LET s == OnData([St EXCEPT !.received = data], data)
          IN  /\ Modem(data)
              /\ Len(s.buffer) <= MaxBody
              /\ s.ringalerts <= MaxRings
              /\ Len(s.timers) <= MaxTimers
              /\ s.tally.failures <= MaxFailures
              /\ Becomes(s)

\* the chunks the serial port hands to readSBD
Chunks == {<<b>> : b \in Bytes} \cup {<<a, b>> : a \in Bytes, b \in Bytes}

\* readSBD in binary mode: copy the chunk to the offset, advance the offset
ReceiveBinary ==
    /\ Running
    /\ portOpen
    /\ binary.mode
    /\ \E chunk \in Chunks :
          /\ Len(binary.buffer) + Len(chunk) <= MaxBinary
          /\ Becomes([St EXCEPT !.binary.buffer = @ \o chunk,
                                !.received = NoLine])

\* the timer of enableBinaryMode expires
Flush ==
    /\ Running
    /\ flushTimers > 0
    /\ LET s == FlushBinary(St)
       IN  /\ Len(s.buffer) <= MaxBody
           /\ Becomes(s)

\* the timer armed by AT expires: the callback only logs
Timeout ==
    /\ Running
    /\ tf = "armed"
    /\ Becomes([St EXCEPT !.tf = "fired", !.received = NoLine])

\* the application sends after 'initialized', one operation at a time
SendMessage ==
    /\ Running
    /\ NTasks \in called
    /\ Idle
    /\ ops < MaxOps
    /\ \E message \in Messages :
          Becomes(sendMessage(Begin(St, "sendMessage", message), message, User))

\* the application sends whenever the port is open
SendAnytime ==
    /\ Running
    /\ portOpen
    /\ ops < MaxOps
    /\ \E message \in Messages :
          Becomes(sendMessage(Begin(St, "sendMessage", message), message, User))

\* the callback of deflateRaw in sendCompressedMessage
MailboxSend(messages) ==
    /\ Running
    /\ NTasks \in called
    /\ Idle
    /\ ops < MaxOps
    /\ \E buf \in messages :
          Becomes(mailboxSend(
              [BeginBinary(St, "mailboxSend", buf) EXCEPT
                  !.c_attempt = 0,
                  !.tally = [tally EXCEPT !.attempts = 0, !.sessions = 0,
                                          !.failures = 0, !.results = <<>>]],
              buf, User))

\* the 20 s timer of a failed attempt expires
Retry ==
    /\ Running
    /\ \E i \in DOMAIN timers :
          /\ timers[i].k = "retry"
          /\ Becomes(mailboxSend(
                 Restart([St EXCEPT !.timers = Remove(@, i)], "retry"),
                 timers[i].buffer, User))

\* the 1000 ms timer of a successful attempt expires
FollowUp ==
    /\ Running
    /\ \E i \in DOMAIN timers :
          /\ timers[i].k = "check"
          /\ Becomes(sendMessage(
                 Restart([St EXCEPT !.timers = Remove(@, i),
                                    !.tally.followups = @ + 1], "followup"),
                 "", None))

\* the application calls mailboxCheck whenever the port is open
MailboxCheck ==
    /\ Running
    /\ portOpen
    /\ tally.checks < MaxChecks
    /\ Becomes(mailboxCheck(
           Log([St EXCEPT !.tally.checks = @ + 1, !.received = NoLine],
               Began("mailboxCheck", ""))))

\* the application sends bytes after 'initialized', one operation at a time
SendBinary(messages) ==
    /\ Running
    /\ NTasks \in called
    /\ Idle
    /\ ops < MaxOps
    /\ \E buf \in messages :
          Becomes(sendBinaryMessage(
              BeginBinary(St, "sendBinaryMessage", buf), buf, User))

\* a session of the application with a modem that speaks the SBD protocol
Next ==
    \/ Open
    \/ Receive(SessionLines)
    \/ ReceiveBinary
    \/ Flush
    \/ SendMessage

Spec == Init /\ [][Next]_vars

\* the initialization, with unsolicited lines and the command timer
NextInit ==
    \/ Open
    \/ Receive(InitLines)
    \/ Timeout

SpecInit == Init /\ [][NextInit]_vars

\* an application that does not wait for the driver
NextAny ==
    \/ Open
    \/ Receive({LineOK, LineERROR})
    \/ SendAnytime

SpecAny == Init /\ [][NextAny]_vars

\* a session during which the modem also sends unsolicited lines
NextUnsolicited ==
    \/ Open
    \/ Receive(UnsolicitedLines)
    \/ SendMessage

SpecUnsolicited == Init /\ [][NextUnsolicited]_vars

\* a compressed send that fails, with its retries
NextRetry ==
    \/ Open
    \/ Receive(RetryLines)
    \/ MailboxSend(Deflated)
    \/ Retry

SpecRetry == Init /\ [][NextRetry]_vars

\* a compressed send that succeeds, with its follow-up check
NextMailbox ==
    \/ Open
    \/ Receive(MailboxLines)
    \/ MailboxSend(Deflated)
    \/ MailboxCheck
    \/ FollowUp

SpecMailbox == Init /\ [][NextMailbox]_vars

\* a session with an MT message and an application that checks the mailbox
NextInterleaved ==
    \/ Open
    \/ Receive(InterleavedLines)
    \/ ReceiveBinary
    \/ Flush
    \/ SendMessage
    \/ MailboxCheck

SpecInterleaved == Init /\ [][NextInterleaved]_vars

\* a binary send
NextBinary ==
    \/ Open
    \/ Receive(BinaryLines)
    \/ SendBinary(BinaryMessages)

SpecBinary == Init /\ [][NextBinary]_vars

\* a text send of a driver that was opened with a config
NextConfig ==
    \/ OpenConfig(Configs)
    \/ Open
    \/ Receive(ConfigLines)
    \/ SendMessage

SpecConfig == Init /\ [][NextConfig]_vars

-----------------------------------------------------------------------------
(* Properties *)

IsWrite(e) == e.t = "write"
IsDone(e) == e.t = "done"
Positions == 1..Len(trace)

\* C1: the completion of every sent command is invoked exactly once: in
\* every prefix of the history the invocations of datafunction number the
\* commands written, less at most the one in flight (none is invoked twice,
\* none is dropped by a later send).
C1_CompletionExactlyOnce ==
    \A n \in 0..Len(trace) :
        /\ CountTo("done", n) <= CountTo("write", n)
        /\ CountTo("write", n) <= CountTo("done", n) + 1

EndOf(c) ==
    CASE c = "AT+CIER=1,1,0" -> "CIEV"
      [] c = "AT+SBDRB" -> "false"
      [] OTHER -> "OK"
KeepOf(c) ==
    CASE c = "AT+SBDIXA" -> "SBDIX"
      [] c = "AT+SBDRB" -> "false"
      [] OTHER -> "ALL"
ClosuresOf(c) ==
    CASE c \in {"ATE0", "AT+SBDD2", "AT+SBDAREG=1", "AT+SBDMTA=1"} -> {"series"}
      [] c = "AT+SBDWT=" -> {"written"}
      [] c = "AT+SBDD0" -> {"written", "finish", "surface"}
      [] c = "AT+CIER=1,1,0" -> {"network"}
      [] c = "AT+CIER=0,0,0" -> {"monitoringOff"}
      [] c = "AT+SBDIXA" -> {"session"}
      [] c = "AT+SBDRB" -> {"readBinary"}
      [] c = "AT+SBDD1" -> {"mtCleared"}
      [] OTHER -> {}
LastWrite == CHOOSE j \in Positions : IsWrite(trace[j]) /\ \A k \in Positions : IsWrite(trace[k]) => k <= j

C3_TimeoutCompletes ==
    [][(tf = "armed" /\ tf' = "fired") =>
            /\ ~Truthy(er')
            /\ Len(trace') = Len(trace) + 1
            /\ IsDone(trace'[Len(trace')])
            /\ trace'[Len(trace')].e = "timeout"]_vars

InitCommands == <<"ATE0", "AT+SBDD2", "AT+SBDAREG=1", "AT+SBDMTA=1">>
Initialized == {j \in Positions : trace[j].t = "emit" /\ trace[j].c = "initialized"}
\* the modem answered init command k with OK: the command was written and
\* right then completed without error
AnsweredOK(k) ==
    \E j \in 2..Len(trace) :
        /\ IsWrite(trace[j - 1])
        /\ trace[j - 1].c = InitCommands[k]
        /\ IsDone(trace[j])
        /\ trace[j].e = "null"

\* C4: after the port opens the driver writes ATE0, AT+SBDD2, AT+SBDAREG=1,
\* AT+SBDMTA=1 in that order and nothing else, each but the first right
\* after the OK of the one before; 'initialized' is emitted at most once,
\* right after the OK of the fourth, and it is emitted once the four are
\* answered with OK.
C4_InitSequence ==
    LET writes == SelectSeq(trace, IsWrite)
    IN  /\ Len(writes) <= Len(InitCommands)
        /\ \A k \in 1..Len(writes) : writes[k].c = InitCommands[k]
        /\ portOpen => (trace # <<>> /\ IsWrite(trace[1]))
        /\ \A j \in 2..Len(trace) :
              IsWrite(trace[j]) =>
                  /\ IsDone(trace[j - 1])
                  /\ trace[j - 1].e = "null"
                  /\ \E k \in 2..Len(InitCommands) :
                        /\ trace[j].c = InitCommands[k]
                        /\ trace[j - 1].c = InitCommands[k - 1]
        /\ Cardinality(Initialized) <= 1
        /\ \A j \in Initialized :
              /\ CountTo("write", j) = Len(InitCommands)
              /\ IsDone(trace[j - 1])
              /\ trace[j - 1].c = InitCommands[Len(InitCommands)]
              /\ trace[j - 1].e = "null"
        /\ (\A k \in 1..Len(InitCommands) : AnsweredOK(k)) => Initialized # {}

\* C4 witness: the four commands were answered with OK and 'initialized'
\* was emitted.
C4_InitializedEmitted ==
    /\ thrown = "none"
    /\ \A k \in 1..Len(InitCommands) : AnsweredOK(k)
    /\ Initialized # {}

\* C5: once a command of the init sequence completed with an error, no
\* command is written and 'initialized' is not emitted.
C5_AbortOnError ==
    \A j \in Positions :
        (IsDone(trace[j]) /\ trace[j].e # "null") =>
            \A k \in (j + 1)..Len(trace) : trace[k].t \notin {"write", "emit"}

\* C5 witness: AT+SBDAREG=1 was answered with an error line and the modem
\* sent a further line that ends a command.
C5_AbortedThenAnswered ==
    \E j \in Positions :
        /\ IsDone(trace[j])
        /\ trace[j].c = "AT+SBDAREG=1"
        /\ trace[j].e = "ERROR"
        /\ j < Len(trace)

IsPrefix(a, b) == Len(a) <= Len(b) /\ \A j \in 1..Len(a) : a[j] = b[j]
Plain(c) == Cmd(c, "", <<>>)
\* the history of a text send that meets no error and no MT message
TextSend(message, line) ==
    LET first == IF message # "" THEN Cmd("AT+SBDWT=", message, <<>>)
                                 ELSE Plain("AT+SBDD0")
    IN  <<Began("sendMessage", message),
          Written(first), Done(first, "null", <<>>),
          Written(Plain("AT+CIER=1,1,0")), Done(Plain("AT+CIER=1,1,0"), "null", <<>>),
          Written(Plain("AT+CIER=0,0,0")), Done(Plain("AT+CIER=0,0,0"), "null", <<>>),
          Written(Plain("AT+SBDIXA")), Done(Plain("AT+SBDIXA"), "null", <<line>>),
          Written(Plain("AT+SBDD0")), Done(Plain("AT+SBDD0"), "null", <<>>),
          Called("null", line.a[2])>>
\* +SBDIX lines that report MO success and no MT message
NoMTLines == {l \in SessionLines : l.h = "+SBDIX" /\ Len(l.a) = 6 /\ l.a[1] <= 4 /\ l.a[3] = 0}
\* every command of the operation was answered once, without error, and
\* the session reported MO success and no MT message
AllSucceeded ==
    /\ \A n \in 0..Len(trace) : CountTo("done", n) <= CountTo("write", n)
    /\ \A j \in Positions :
          IsDone(trace[j]) =>
              /\ trace[j].e = "null"
              /\ trace[j].c = "AT+SBDIXA" =>
                    (Len(trace[j].b) = 1 /\ trace[j].b[1] \in NoMTLines)

\* C6: a sendMessage(text) in which every command succeeds and SBDIX
\* reports status <= 4 with mtstatus 0 writes AT+SBDWT=<text> (AT+SBDD0 for
\* empty text), AT+CIER=1,1,0, AT+CIER=0,0,0, AT+SBDIXA, AT+SBDD0 in that
\* order, each right after the completion of the one before, and with the
\* completion of the last calls the caller back once, with no error and the
\* momsn of the +SBDIX line.
C6_TextSendSequence ==
    (ops >= 1 /\ AllSucceeded) =>
        /\ \E line \in NoMTLines : IsPrefix(trace, TextSend(trace[1].x, line))
        /\ trace[Len(trace)].t \in {"write", "callback"}

\* C6 witness: sendMessage("hider") ran to its callback with momsn 42.
C6_TextSent == trace = TextSend("hider", SBDIX(0, 42, 0, 0))

WellFormed(l) == l.h = "+SBDIX" /\ Len(l.a) = 6
\* the numbers of the first +SBDIX line of a body
Parsed(b) ==
    b[CHOOSE i \in 1..Len(b) :
          WellFormed(b[i]) /\ \A k \in 1..(i - 1) : ~WellFormed(b[k])].a
\* the completions of AT+SBDIXA that delivered a +SBDIX line
SessionDones ==
    {j \in Positions :
        /\ IsDone(trace[j])
        /\ trace[j].c = "AT+SBDIXA"
        /\ trace[j].e = "null"
        /\ \E i \in 1..Len(trace[j].b) : WellFormed(trace[j].b[i])}
FailureOf(status) ==
    IF status = 18 THEN "radio failure"
    ELSE IF status = 32 THEN "network failure"
    ELSE "unknown failure"
Failures == {"radio failure", "network failure", "unknown failure"}

\* C7: for each +SBDIX status s delivered to initiateSession: if s <= 4
\* messagePending is 0 and no failure is reported to the caller; otherwise
\* AT+SBDD0 is written at once, AT+SBDRB is never written and nothing is
\* emitted, and the completion of AT+SBDD0 calls the caller back with
\* "radio failure" (s = 18), "network failure" (s = 32) or "unknown
\* failure" (any other s).
C7_StatusDisposition ==
    \A j \in SessionDones :
        LET status == Parsed(trace[j].b)[1]
            later == (j + 1)..Len(trace)
        IN  IF status <= 4
            THEN /\ messagePending = 0
                 /\ \A k \in later :
                       trace[k].t = "callback" => trace[k].e \notin Failures
            ELSE /\ Len(trace) > j
                 /\ trace[j + 1] = Written(Plain("AT+SBDD0"))
                 /\ \A k \in later :
                       /\ trace[k].c # "AT+SBDRB"
                       /\ trace[k].t # "emit"
                       /\ trace[k].t = "callback" =>
                             /\ k >= j + 3
                             /\ trace[k].e = FailureOf(status)
                             /\ trace[k].n = Undefined
                 /\ Len(trace) >= j + 2 =>
                       /\ IsDone(trace[j + 2])
                       /\ trace[j + 2].c = "AT+SBDD0"
                       /\ Len(trace) >= j + 3
                       /\ trace[j + 3] = Called(FailureOf(status), Undefined)

\* C7 witness: status 18 was delivered and the caller got "radio failure".
C7_RadioFailureSurfaced ==
    /\ \E j \in SessionDones : Parsed(trace[j].b)[1] = 18
    /\ trace[Len(trace)] = Called("radio failure", Undefined)

\* the kind and the command or event of each history entry
Shape(seq) == [j \in 1..Len(seq) |-> <<seq[j].t, seq[j].c>>]
MTRead ==
    <<<<"write", "AT+SBDRB">>, <<"done", "AT+SBDRB">>, <<"emit", "newmessage">>,
      <<"write", "AT+SBDD1">>, <<"done", "AT+SBDD1">>,
      <<"write", "AT+SBDD0">>, <<"done", "AT+SBDD0">>, <<"callback", "">>>>

\* C8: when SBDIX reports MO success with mtstatus 1 the driver enters
\* binary mode and writes AT+SBDRB; the flushed blob sets pending to
\* mtqueued and emits 'newmessage' with mtqueued once; what follows the
\* +SBDIX completion is AT+SBDRB, its blob, 'newmessage', AT+SBDD1 and its
\* completion, AT+SBDD0 and its completion, then the callback with momsn,
\* one leading to the next.
C8_MTReadSequence ==
    \A j \in SessionDones :
        LET m == Parsed(trace[j].b)
            rest == SubSeq(trace, j + 1, Len(trace))
        IN  (m[1] <= 4 /\ m[3] = 1) =>
                /\ rest # <<>>
                /\ IsPrefix(Shape(rest), MTRead)
                /\ rest[Len(rest)].t \in {"write", "callback"}
                /\ Len(rest) = 1 => binary.mode
                /\ Len(rest) >= 3 => (rest[3].n = m[6] /\ pending = m[6])
                /\ Len(rest) >= 8 => rest[8].n = m[2]

\* C9: a line matching an unsolicited pattern runs its handler and nothing
\* else: SBDRING emits 'ringalert' once, +AREG emits nothing; the slot, the
\* body, the timer and the session state stay as they are, no completion
\* is invoked and nothing is written.
C9_UnsolicitedLeavesSlot ==
    [][received'.h \in {"SBDRING", "+AREG"} =>
            /\ ringalerts' = ringalerts + (IF received'.h = "SBDRING" THEN 1 ELSE 0)
            /\ UNCHANGED <<portOpen, er, kr, df, tf, command, buffer, binary,
                           flushTimers, messagePending, lock, pending, called,
                           c_attempt, globals, timers, ops, trace>>]_vars

\* C9 witness: SBDRING arrived while AT+SBDIXA was in flight and after its
\* +SBDIX line was kept.
C9_RingDuringSession ==
    /\ received = LineRING
    /\ ringalerts = 1
    /\ InFlight
    /\ command.c = "AT+SBDIXA"
    /\ buffer = <<SBDIX(0, 42, 0, 0)>>

\* C10: with no command in flight a line that matches no unsolicited
\* pattern is discarded: no completion is invoked, nothing is kept in the
\* body and no driver state changes.
C10_IdleLineDiscarded ==
    [][(/\ portOpen
        /\ ~InFlight
        /\ received' # NoLine
        /\ received'.h \notin {"SBDRING", "+AREG", "BLOB"}) =>
            UNCHANGED <<portOpen, er, kr, df, tf, command, buffer, binary,
                        flushTimers, messagePending, lock, pending, called,
                        c_attempt, globals, timers, ops, ringalerts, thrown,
                        trace>>]_vars

\* the timers of kind k, and how often the caller got the error err
TimersOf(k) == {i \in DOMAIN timers : timers[i].k = k}
Given(results, err) == Cardinality({i \in DOMAIN results : results[i] = err})

\* C11: one mailboxSend started with c_attempt = 0 makes at most
\* maxAttempts attempts (calls of sendBinaryMessage), whatever fails and
\* whenever the retry timers run, and those attempts write AT+SBDIXA at
\* most once each, so at most maxAttempts times.
C11_AttemptsBounded ==
    /\ tally.attempts <= globals.maxAttempts
    /\ tally.sessions <= tally.attempts
    /\ c_attempt # Undefined => tally.attempts <= c_attempt

\* C11 witness: five attempts were made and each wrote AT+SBDIXA and failed.
C11_FiveAttempts ==
    /\ tally.attempts = maxAttempts
    /\ tally.sessions = maxAttempts
    /\ tally.failures = maxAttempts

\* C12: when every attempt of a mailboxSend fails (once each), a failed
\* attempt arms one 20 s timer and does not call the caller; every timer
\* that runs makes the next attempt, until maxAttempts attempts have
\* failed: the timer that runs then writes nothing and calls the caller
\* with the max-attempts error, and the caller is called that once only.
C12_RetryThenGiveUp ==
    /\ [](/\ \A i \in TimersOf("retry") : timers[i].delay = 20000
          /\ (ops >= 1 /\ ~tally.replayed) =>
                LET given == Given(tally.results, "maxAttempts")
                    armed == Cardinality(TimersOf("retry"))
                IN  /\ Len(tally.results) = given
                    /\ given <= 1
                    /\ armed <= 1
                    /\ armed + tally.attempts + given = tally.failures + 1
                    /\ given = 1 <=> (tally.failures = globals.maxAttempts /\ armed = 0))
    /\ [][tally'.failures > tally.failures =>
            /\ tally'.failures = tally.failures + 1
            /\ tally'.results = tally.results
            /\ Len(timers') = Len(timers) + 1
            /\ timers'[Len(timers')].k = "retry"]_vars
    /\ [][Given(tally'.results, "maxAttempts") > Given(tally.results, "maxAttempts") =>
            /\ tally.attempts = globals.maxAttempts
            /\ trace' = <<Began("retry", ""), Called("maxAttempts", Undefined)>>]_vars

\* C12 witness: five attempts failed once each and the caller got the
\* max-attempts error.
C12_GaveUp ==
    /\ ~tally.replayed
    /\ tally.attempts = maxAttempts
    /\ tally.failures = maxAttempts
    /\ tally.results = <<"maxAttempts">>

\* C17: a successful attempt of mailboxSend with pending > 0 arms one
\* 1000 ms timer and starts nothing itself; the follow-up check (sendMessage
\* with empty text, which writes AT+SBDD0) is started by that timer, once;
\* a successful attempt with pending = 0 arms no timer and starts nothing.
C17_FollowUp ==
    /\ [](/\ \A i \in TimersOf("check") : timers[i].delay = 1000
          /\ tally.followups + Cardinality(TimersOf("check")) = tally.due)
    /\ [][Given(tally'.results, "false") > Given(tally.results, "false") =>
            /\ tally'.followups = tally.followups
            /\ trace'[Len(trace')].t = "callback"
            /\ \A j \in (Len(trace) + 1)..Len(trace') : trace'[j].t # "write"
            /\ IF pending > 0
               THEN /\ timers' = Append(timers, Timer("check", 1000, <<>>))
                    /\ tally'.due = tally.due + 1
               ELSE /\ timers' = timers
                    /\ tally'.due = tally.due]_vars
    /\ [][tally'.followups # tally.followups =>
            /\ tally'.followups = tally.followups + 1
            /\ \E i \in TimersOf("check") : timers' = Remove(timers, i)
            /\ trace' = <<Began("followup", ""), Written(Plain("AT+SBDD0"))>>]_vars

\* C17 witness: an attempt succeeded with pending = 1 and the timer has
\* started the follow-up check.
C17_FollowedUp ==
    /\ tally.due = 1
    /\ tally.followups = 1
    /\ timers = <<>>
    /\ pending = 1

\* the commands of the stages of a send, up to the session
StageCommands ==
    {"AT+SBDWT=", "AT+SBDWB=", "ob", "AT+CIER=1,1,0", "AT+CIER=0,0,0", "AT+SBDIXA"}
\* the completions with an error of a stage of the current send
StageErrors ==
    {j \in 2..Len(trace) :
        /\ ops >= 1
        /\ IsDone(trace[j])
        /\ trace[j].e # "null"
        /\ IsWrite(trace[j - 1])
        /\ \/ trace[j].c \in StageCommands
           \/ trace[j].c = "AT+SBDD0" /\ j = 3}

\* C13: when a stage of a send (the buffer write, AT+SBDWB, the write of
\* the bytes, AT+CIER=1,1,0, AT+CIER=0,0,0, AT+SBDIXA) completes with an
\* error, the driver writes AT+SBDD0 next, writes no other command after
\* it, and calls the caller with that error when AT+SBDD0 completes.
C13_ErrorClearsAndSurfaces ==
    \A j \in StageErrors :
        /\ Len(trace) > j
        /\ trace[j + 1] = Written(Plain("AT+SBDD0"))
        /\ \A k \in (j + 2)..Len(trace) :
              /\ ~IsWrite(trace[k])
              /\ trace[k].t = "callback" => trace[k].e = trace[j].e
        /\ Len(trace) >= j + 2 =>
              /\ IsDone(trace[j + 2])
              /\ Len(trace) >= j + 3
              /\ trace[j + 3] = Called(trace[j].e, Undefined)

\* the session completions that announced an MT message
MTAnnounced ==
    {j \in SessionDones : Parsed(trace[j].b)[1] <= 4 /\ Parsed(trace[j].b)[3] = 1}
\* between j and k the MT read, the MT clear and the MO clear completed
Drained(j, k) ==
    \E a, b, c \in (j + 1)..(k - 1) :
        /\ a < b /\ b < c
        /\ IsDone(trace[a]) /\ trace[a].c = "AT+SBDRB"
        /\ IsDone(trace[b]) /\ trace[b].c = "AT+SBDD1"
        /\ IsDone(trace[c]) /\ trace[c].c = "AT+SBDD0"

\* C14: once AT+SBDIXA has announced an MT message, no public operation
\* writes the first command of a new session and no AT+SBDIXA is written
\* before AT+SBDRB, AT+SBDD1 and AT+SBDD0 of that session have completed.
C14_SerializedBehindMTRead ==
    \A j \in MTAnnounced :
        \A k \in (j + 1)..Len(trace) :
            (IsWrite(trace[k]) /\ (trace[k - 1].t = "call" \/ trace[k].c = "AT+SBDIXA"))
                => Drained(j, k)

\* C15: sendBinaryMessage with a non-empty message writes AT+SBDWB=<length
\* of the message> first; when that completes without error (READY) it
\* writes, once, the bytes of the message followed by two bytes hi, lo with
\* hi * 256 + lo = (sum of the bytes of the message) mod 2^16.
C15_BinaryWrite ==
    (ops >= 1 /\ trace[1].c = "sendBinaryMessage") =>
        LET message == trace[1].p
            n == Len(message)
        IN  /\ Len(trace) >= 2
            /\ trace[2] = Written(Cmd("AT+SBDWB=", ToString(n), <<>>))
            /\ (Len(trace) >= 3 /\ trace[3].e = "null") =>
                  /\ Len(trace) >= 4
                  /\ trace[4].t = "write"
                  /\ trace[4].c = "ob"
            /\ \A j \in Positions :
                  trace[j].c = "ob" /\ IsWrite(trace[j]) =>
                      /\ j = 4
                      /\ trace[3] = Done(Cmd("AT+SBDWB=", ToString(n), <<>>), "null", <<>>)
                      /\ Len(trace[j].p) = n + 2
                      /\ SubSeq(trace[j].p, 1, n) = message
                      /\ trace[j].p[n + 1] \in 0..255
                      /\ trace[j].p[n + 2] \in 0..255
                      /\ trace[j].p[n + 1] * 256 + trace[j].p[n + 2]
                            = Sum(message) % 65536

\* C15 witness: the bytes of a message whose sum is above 2^16 were written.
C15_LongMessageWritten ==
    /\ ops >= 1
    /\ Sum(trace[1].p) >= 65536
    /\ Len(trace) >= 4
    /\ trace[4].c = "ob"

\* a blob that is a frame: two bytes of length, the payload, two bytes of
\* checksum
FrameLength(blob) == blob[1] * 256 + blob[2]
IsFrame(blob) ==
    /\ Len(blob) >= 4
    /\ Len(blob) = FrameLength(blob) + 4
    /\ blob[Len(blob) - 1] * 256 + blob[Len(blob)]
          = Sum(SubSeq(blob, 3, Len(blob) - 2)) % 65536

\* C16: when the bytes accumulated in the flush window, in whatever chunks
\* they came, are the frame len_hi len_lo P cksum_hi cksum_lo, the message
\* emitted with 'newmessage' is P.
C16_FrameRoundTrip ==
    \A j \in 2..Len(trace) :
        (/\ IsDone(trace[j])
         /\ trace[j].c = "AT+SBDRB"
         /\ trace[j].e = "null"
         /\ IsWrite(trace[j - 1])
         /\ IsFrame(trace[j].p)) =>
            /\ Len(trace) > j
            /\ trace[j + 1].t = "emit"
            /\ trace[j + 1].c = "newmessage"
            /\ trace[j + 1].p = SubSeq(trace[j].p, 3, Len(trace[j].p) - 2)

\* C16 witness: the frame of the one-byte message 1 was flushed and the
\* message emitted.
C16_FrameDelivered ==
    \E j \in 2..Len(trace) :
        /\ trace[j].t = "emit"
        /\ trace[j].p = <<1>>
        /\ trace[j - 1].p = <<0, 1, 1, 0, 1>>

\* the step handed a text line to the 'data' handler while a command was in
\* flight, and the line is not unsolicited
AnswerLine ==
    /\ InFlight
    /\ ~binary.mode
    /\ received' # NoLine
    /\ received'.h \notin {"SBDRING", "+AREG", "BLOB"}

\* C18: the body handed to a successful completion is made of the lines
\* that came after the command was written, are not unsolicited and match
\* its keep pattern (all of them if there is none), in the order they came,
\* up to and with the first that matches its end pattern: the body is
\* empty when a command is written, a line in answer is appended if and
\* only if it matches the keep pattern, and the first that matches the end
\* pattern hands the body over; the body of AT+SBDIXA holds +SBDIX lines
\* only.
C18_BodyOfCommand ==
    /\ [][(trace' # trace /\ IsWrite(trace'[Len(trace')])) => buffer' = <<>>]_vars
    /\ [][(AnswerLine /\ ~Test("ERROR", received')) =>
            LET kept == IF ~Truthy(kr) \/ Test(kr, received')
                        THEN Append(buffer, received') ELSE buffer
            IN  IF Truthy(er) /\ Test(er, received')
                THEN /\ Len(trace') > Len(trace)
                     /\ trace'[Len(trace) + 1] = Done(command, "null", kept)
                     /\ delivered' = kept
                ELSE /\ trace' = trace
                     /\ buffer' = kept]_vars
    /\ [](\A j \in Positions :
            (IsDone(trace[j]) /\ trace[j].c = "AT+SBDIXA" /\ trace[j].e = "null") =>
                \A i \in 1..Len(trace[j].b) : trace[j].b[i].h = "+SBDIX")

\* C19: a line in answer to a command in flight that matches /ERROR/ hands
\* the body collected so far, without that line, to the completion of the
\* command, with the error, and empties the body, also when the line
\* matches the end pattern or the keep pattern of the command.
C19_ErrorCompletes ==
    [][(AnswerLine /\ Test("ERROR", received')) =>
            /\ Len(trace') > Len(trace)
            /\ trace'[Len(trace) + 1] = Done(command, "ERROR", buffer)
            /\ delivered' = buffer
            /\ buffer' = <<>>]_vars

\* C19 witness: AT+SBDWB was in flight with one line in its body when a
\* line that matches /ERROR/ and the end pattern /READY/ came.
C19_ErrorBeatsEnd ==
    /\ received = LineREADYERROR
    /\ delivered = <<LineOK>>
    /\ Len(trace) >= 4
    /\ trace[3].c = "AT+SBDWB="
    /\ trace[3].e = "ERROR"
    /\ trace[4] = Written(Plain("AT+SBDD0"))
    /\ buffer = <<>>

\* C20: AT+CIER=1,1,0 is in flight with its timer armed if open was given a
\* maxWait above 0, and with no timer armed if it was not.
C20_MaxWaitArmsTimer ==
    (InFlight /\ command.c = "AT+CIER=1,1,0") =>
        IF config.maxWait > 0 THEN tf = "armed" ELSE tf # "armed"

\* the step handed the 'data' handler a line that matches /^\+AREG/ and
\* not /^\+AREG:(\d+),(\d+)/
MalformedAreg ==
    /\ received' # NoLine
    /\ Test("AREG", received')
    /\ Len(received'.a) < 2

\* C21: a malformed +AREG line is swallowed: the 'data' handler throws
\* nothing, the slot of the command in flight and the body are as before,
\* nothing is written, completed or emitted, and the handler goes on with
\* the lines that follow.
C21_MalformedAregSwallowed ==
    [][MalformedAreg =>
            /\ thrown' = "none"
            /\ UNCHANGED <<er, kr, df, tf, command, buffer, trace>>]_vars

\* C22: in binary mode a step that is not the flush timer routes nothing
\* (no completion, no line in the body, the slot as before); the flush
\* timer hands the bytes accumulated, however many, zero and one included,
\* in one piece to the completion of AT+SBDRB, once, and leaves binary mode
\* off and the accumulation empty.
C22_FlushDelivers ==
    /\ [][(binary.mode /\ flushTimers' = flushTimers) =>
            UNCHANGED <<er, kr, df, command, buffer, trace>>]_vars
    /\ [][(flushTimers' < flushTimers /\ InFlight /\ command.c = "AT+SBDRB") =>
            /\ Len(trace') > Len(trace)
            /\ trace'[Len(trace) + 1] = Done(command, "null", <<Blob(binary.buffer)>>)
            /\ \A j \in (Len(trace) + 2)..Len(trace') :
                  ~(IsDone(trace'[j]) /\ trace'[j].c = "AT+SBDRB")
            /\ thrown' = "none"
            /\ binary' = [mode |-> FALSE, buffer |-> <<>>]]_vars

\* the follow-up check, if the last timer started one, is over
FollowUpOver ==
    (trace # <<>> /\ trace[1].c = "followup") =>
        (thrown # "none" \/ Count("callback") >= 1)

\* C23: when a mailboxSend has called its caller (with success or with the
\* max-attempts error), no timer of it is left and the follow-up check it
\* armed, if any, is over, lock is 0.
C23_LockReleased ==
    (/\ tally.results # <<>>
     /\ timers = <<>>
     /\ ~InFlight
     /\ FollowUpOver) => lock = 0

\* the completions of AT+SBDIXA, answered once and without error, whose body
\* has no line +SBDIX: n, n, n, n, n, n
Unparsed ==
    {j \in 2..Len(trace) :
        /\ IsDone(trace[j])
        /\ trace[j].c = "AT+SBDIXA"
        /\ trace[j].e = "null"
        /\ IsWrite(trace[j - 1])
        /\ \A i \in 1..Len(trace[j].b) : ~WellFormed(trace[j].b[i])}

\* C24: when AT+SBDIXA completes without error and its body has no +SBDIX
\* line that parses, the send goes on to its end: nothing is thrown, the
\* caller is called at most once and with an error, and messagePending is
\* not 2 once the caller was called.
C24_UnparsableSessionFails ==
    \A j \in Unparsed :
        LET calls == {k \in (j + 1)..Len(trace) : trace[k].t = "callback"}
        IN  /\ thrown = "none"
            /\ Cardinality(calls) <= 1
            /\ \A k \in calls : trace[k].e # "null" /\ trace[k].m = Undefined
            /\ calls # {} => messagePending # 2

====
